---------------------------- MODULE Spec2Model ----------------------------
(***************************************************************************)
(* Model of merge_xlsx.py: the spreadsheet merger that reads every xlsx    *)
(* file of a folder, keeps the two required columns, appends the rows to   *)
(* an accumulated table, counts the rows that repeat earlier data, drops   *)
(* duplicates after every file and finally exports the table as CSV.       *)
(*                                                                         *)
(* The program is sequential; pc is the position of the single thread of   *)
(* control.  What the environment decides (whether the folder exists,      *)
(* what each file holds, whether a file can be read or written) is chosen  *)
(* with \E at the statement that observes it.                              *)
(***************************************************************************)
EXTENDS Integers, Sequences, FiniteSets, TLC

(* Bounds of the model. *)
MaxFiles == 2
MaxRows == 2

(* Cell values and records.  A record is the pair (question, answer) of    *)
(* one spreadsheet row.                                                    *)
Records ==
    { <<"Q1", "A1">>, <<"Q2", "A2">>, <<"Q3", "A3">> }

(* The column labels of line 69 (written in ASCII here). *)
required_columns == <<"question", "answer">>

Range(s) == { s[k] : k \in 1..Len(s) }

(* Tables of at most MaxRows rows. *)
Tables == UNION { [1..k -> Records] : k \in 0..MaxRows }

(* The header rows a file may have: both required columns, one of them, or *)
(* other names altogether.                                                 *)
ColumnSets ==
    { {"question", "answer"}, {"question", "other"}, {"answer"},
      {"Question", "Ans"} }

(* The cells of a file that lacks a required column are never read, only   *)
(* its row count is: such files all carry the same filler record.          *)
FillerTables ==
    { [k \in 1..n |-> <<"Q1", "A1">>] : n \in 0..MaxRows }

(* What pd.read_excel can meet at a path: a file that cannot be parsed, or *)
(* a table with a header and rows.                                         *)
Files ==
    { [readable |-> FALSE, columns |-> {}, rows |-> <<>>] }
    \cup { [readable |-> TRUE, columns |-> {"question", "answer"}, rows |-> t] :
              t \in Tables }
    \cup { [readable |-> TRUE, columns |-> c, rows |-> t] :
              c \in ColumnSets \ {{"question", "answer"}}, t \in FillerTables }

VARIABLES
    pc,                 \* position of the program
    entry,              \* "main" or "merge_xlsx_files": the function called
    folder_exists,      \* whether the input folder exists
    xlsx_files,         \* the paths glob returned (numbered 1..n)
    i,                  \* the loop counter of line 59 (1-based)
    df,                 \* the projected table of line 78
    rows_in_file,       \* line 65
    all_data,           \* the accumulated table (a sequence of records)
    total_rows_before,  \* line 55
    total_duplicates,   \* line 56
    before_merge,       \* line 84
    after_concat,       \* line 90
    duplicate_count,    \* line 93
    after_dedup,        \* line 109
    csv_file,           \* content of the output file, <<>> while absent
    to_csv_called,      \* whether line 131 was executed
    console,            \* the kinds of message printed so far
    \* history variables (not program state)
    appended,           \* the rows of the accepted files, in order, as read
    prior_data,         \* all_data as it stood when the iteration began
    accepted_sizes,     \* row counts of the accepted files, in order
    uncounted           \* rows that repeat only an earlier row of their file

vars ==
    << pc, entry, folder_exists, xlsx_files, i, df,
       rows_in_file, all_data, total_rows_before, total_duplicates,
       before_merge, after_concat, duplicate_count, after_dedup, csv_file,
       to_csv_called, console, appended, prior_data, accepted_sizes,
       uncounted >>

locals == << df, rows_in_file, before_merge, after_concat, duplicate_count,
             after_dedup >>
totals == << all_data, total_rows_before, total_duplicates >>
history == << appended, prior_data, accepted_sizes, uncounted >>
outputs == << csv_file, to_csv_called >>
world == << entry, folder_exists >>

-----------------------------------------------------------------------------
(* Pure parts of the loop body. *)

(* Series.equals on two rows of the two-column table: every field equal.   *)
RowEquals(x, y) == x[1] = y[1] /\ x[2] = y[2]

(* missing_columns of line 70. *)
missing_columns(columns) ==
    SelectSeq(required_columns, LAMBDA col : col \notin columns)

(* Whether some row of rows[1..n] equals row (the any(...) of lines 99-103). *)
is_duplicate(rows, n, row) ==
    \E j \in 1..n : RowEquals(rows[j], row)

(* Lines 93-105: the number of the rows at positions before+1..after of    *)
(* rows that equal some row at a position 1..before; 0 when before = 0.    *)
RECURSIVE CountFrom(_, _, _, _)
CountFrom(rows, before, idx, after) ==
    IF idx > after THEN 0
    ELSE (IF is_duplicate(rows, before, rows[idx]) THEN 1 ELSE 0)
         + CountFrom(rows, before, idx + 1, after)

count_wrong_slice(rows, before, after) ==
    IF before > 0
    THEN Cardinality({ idx \in (before + 1)..after :
                          is_duplicate(rows, idx - 1, rows[idx]) })
    ELSE 0

count_duplicates(rows, before, after) ==
    IF before > 0 THEN CountFrom(rows, before, before + 1, after) ELSE 0

(* DataFrame.drop_duplicates() of line 108: keep the first occurrence of   *)
(* every row, in order.                                                    *)
RECURSIVE DropFrom(_, _)
DropFrom(rows, k) ==
    IF k > Len(rows) THEN <<>>
    ELSE IF \E j \in 1..(k - 1) : RowEquals(rows[j], rows[k])
         THEN DropFrom(rows, k + 1)
         ELSE <<rows[k]>> \o DropFrom(rows, k + 1)

RECURSIVE DropKeepLast(_, _)
DropKeepLast(rows, k) ==
    IF k > Len(rows) THEN <<>>
    ELSE IF \E j \in (k + 1)..Len(rows) : RowEquals(rows[j], rows[k])
         THEN DropKeepLast(rows, k + 1)
         ELSE <<rows[k]>> \o DropKeepLast(rows, k + 1)

RECURSIVE DropAllCopies(_, _)
DropAllCopies(rows, k) ==
    IF k > Len(rows) THEN <<>>
    ELSE IF \E j \in 1..Len(rows) : j # k /\ RowEquals(rows[j], rows[k])
         THEN DropAllCopies(rows, k + 1)
         ELSE <<rows[k]>> \o DropAllCopies(rows, k + 1)

drop_duplicates_discarded(rows) == rows
drop_duplicates_keep_last(rows) == DropKeepLast(rows, 1)
drop_duplicates_keep_false(rows) == DropAllCopies(rows, 1)

drop_duplicates(rows) == DropFrom(rows, 1)

(* A plausible slip: "if all_data is not None" in place of the test of     *)
(* line 129, which no table fails.                                         *)
empty_is_none(rows) == FALSE

(* DataFrame.empty of line 129. *)
empty(rows) == Len(rows) = 0

(* to_csv of line 131: the header row, then one row per record. *)
to_csv(rows) == <<required_columns>> \o rows

-----------------------------------------------------------------------------
Init ==
    /\ pc = "start"
    /\ entry \in {"main", "merge_xlsx_files"}
    /\ folder_exists \in BOOLEAN
    /\ xlsx_files = <<>>
    /\ i = 0
    /\ df = <<>>
    /\ rows_in_file = 0
    /\ all_data = <<>>
    /\ total_rows_before = 0
    /\ total_duplicates = 0
    /\ before_merge = 0
    /\ after_concat = 0
    /\ duplicate_count = 0
    /\ after_dedup = 0
    /\ csv_file = <<>>
    /\ to_csv_called = FALSE
    /\ console = {}
    /\ appended = <<>>
    /\ prior_data = <<>>
    /\ accepted_sizes = <<>>
    /\ uncounted = 0

(* main, lines 140-148, calling create_input_folder, lines 16-24.  mkdir   *)
(* can raise (no permission, a file of that name): nothing catches it.     *)
CreateInputFolder ==
    /\ pc = "start"
    /\ entry = "main"
    /\ \/ /\ folder_exists
          /\ console' = console \cup {"folder_exists"}
          /\ pc' = "merge"
          /\ UNCHANGED folder_exists
       \/ /\ ~folder_exists
          /\ folder_exists' = TRUE
          /\ console' = console \cup {"folder_created"}
          /\ pc' = "merge"
       \/ /\ ~folder_exists
          /\ pc' = "uncaught"
          /\ UNCHANGED << folder_exists, console >>
    /\ UNCHANGED << entry, xlsx_files, i, locals, totals, outputs, history >>

(* merge_xlsx_files called directly. *)
CallMerge ==
    /\ pc = "start"
    /\ entry = "merge_xlsx_files"
    /\ pc' = "merge"
    /\ UNCHANGED << world, xlsx_files, i, locals, totals, outputs, console,
                    history >>

(* Lines 35-40. *)
FolderMissing ==
    /\ pc = "merge"
    /\ ~folder_exists
    /\ console' = console \cup {"error_no_folder"}
    /\ pc' = "returned"
    /\ UNCHANGED << world, xlsx_files, i, locals, totals, outputs, history >>

(* Lines 43-56: glob, the early return on no file, the accumulators. *)
Glob ==
    /\ pc = "merge"
    /\ folder_exists
    /\ \E n \in 0..MaxFiles :
          /\ xlsx_files' = [k \in 1..n |-> k]
          /\ IF n = 0
             THEN /\ console' = console \cup {"warning_no_files"}
                  /\ pc' = "returned"
             ELSE /\ console' = console \cup {"found_files"}
                  /\ pc' = "loop"
    /\ i' = 1
    /\ UNCHANGED << world, locals, totals, outputs, history >>

(* Line 59: the next file, or the end of the loop. *)
NextFile ==
    /\ pc = "loop"
    /\ i <= Len(xlsx_files)
    /\ pc' = "read"
    /\ prior_data' = all_data
    /\ UNCHANGED << world, xlsx_files, i, locals, totals, outputs, console,
                    appended, accepted_sizes, uncounted >>

LoopEnd ==
    /\ pc = "loop"
    /\ i > Len(xlsx_files)
    /\ pc' = "summary"
    /\ UNCHANGED << world, xlsx_files, i, locals, totals, outputs, console,
                    history >>

(* Lines 62-64 and 116-118: read_excel raises, the except clause prints    *)
(* the error and goes on with the next file.                               *)
ReadError ==
    /\ pc = "read"
    /\ \E f \in Files :
          /\ ~f.readable
          /\ console' = console \cup {"read_error"}
    /\ i' = i + 1
    /\ pc' = "loop"
    /\ UNCHANGED << world, xlsx_files, locals, totals, outputs, history >>

(* A plausible slip: the rows are counted before the columns are checked.  *)
SkipMissingColumnsCounted ==
    /\ pc = "read"
    /\ \E f \in Files :
          /\ f.readable
          /\ missing_columns(f.columns) # <<>>
          /\ rows_in_file' = Len(f.rows)
          /\ total_rows_before' = total_rows_before + Len(f.rows)
          /\ console' = console \cup {"warning_missing_columns"}
    /\ i' = i + 1
    /\ pc' = "loop"
    /\ UNCHANGED << world, xlsx_files, df, before_merge, after_concat,
                    duplicate_count, after_dedup, all_data, total_duplicates,
                    outputs, history >>

(* Lines 64-75: the file is read, a required column is missing, the file   *)
(* is skipped.                                                             *)
SkipMissingColumns ==
    /\ pc = "read"
    /\ \E f \in Files :
          /\ f.readable
          /\ missing_columns(f.columns) # <<>>
          /\ rows_in_file' = Len(f.rows)
          /\ console' = console \cup {"warning_missing_columns"}
    /\ i' = i + 1
    /\ pc' = "loop"
    /\ UNCHANGED << world, xlsx_files, df, before_merge, after_concat,
                    duplicate_count, after_dedup, totals, outputs, history >>

(* A plausible slip: the column count is added instead of the row count.   *)
AcceptFileCountsColumns ==
    /\ pc = "read"
    /\ \E f \in Files :
          /\ f.readable
          /\ missing_columns(f.columns) = <<>>
          /\ df' = f.rows
          /\ rows_in_file' = Len(f.rows)
          /\ total_rows_before' = total_rows_before + Cardinality(f.columns)
          /\ accepted_sizes' = Append(accepted_sizes, Len(f.rows))
          /\ uncounted' = uncounted
               + Cardinality({ k \in 1..Len(f.rows) :
                    /\ f.rows[k] \notin Range(all_data)
                    /\ \E j \in 1..(k - 1) : f.rows[j] = f.rows[k] })
    /\ console' = console \cup {"filtered"}
    /\ pc' = "concat"
    /\ UNCHANGED << world, xlsx_files, i, before_merge, after_concat,
                    duplicate_count, after_dedup, all_data, total_duplicates,
                    outputs, appended, prior_data >>

(* Lines 64-81: the file is read, both columns are there, the table is     *)
(* projected onto them and its row count added to the rows read.           *)
AcceptFile ==
    /\ pc = "read"
    /\ \E f \in Files :
          /\ f.readable
          /\ missing_columns(f.columns) = <<>>
          /\ df' = f.rows
          /\ rows_in_file' = Len(f.rows)
          /\ total_rows_before' = total_rows_before + Len(f.rows)
          /\ accepted_sizes' = Append(accepted_sizes, Len(f.rows))
          /\ uncounted' = uncounted
               + Cardinality({ k \in 1..Len(f.rows) :
                    /\ f.rows[k] \notin Range(all_data)
                    /\ \E j \in 1..(k - 1) : f.rows[j] = f.rows[k] })
    /\ console' = console \cup {"filtered"}
    /\ pc' = "concat"
    /\ UNCHANGED << world, xlsx_files, i, before_merge, after_concat,
                    duplicate_count, after_dedup, all_data, total_duplicates,
                    outputs, appended, prior_data >>

(* Lines 84-90: pd.concat([all_data, df], ignore_index=True). *)
ConcatFile ==
    /\ pc = "concat"
    /\ before_merge' = Len(all_data)
    /\ all_data' = all_data \o df
    /\ after_concat' = Len(all_data) + Len(df)
    /\ pc' = "count"
    /\ UNCHANGED << world, xlsx_files, i, df, rows_in_file, duplicate_count,
                    after_dedup, total_rows_before, total_duplicates, outputs,
                    console, history >>

(* Lines 93-105. *)
CountDuplicates ==
    /\ pc = "count"
    /\ duplicate_count' = count_duplicates(all_data, before_merge, after_concat)
    /\ pc' = "dedup"
    /\ UNCHANGED << world, xlsx_files, i, df, rows_in_file, before_merge,
                    after_concat, after_dedup, totals, outputs, console,
                    history >>

(* Lines 108-114, and the end of the iteration. *)
DropDuplicates ==
    /\ pc = "dedup"
    /\ all_data' = drop_duplicates(all_data)
    /\ after_dedup' = Len(drop_duplicates(all_data))
    /\ total_duplicates' = total_duplicates + duplicate_count
    /\ console' = console \cup {"file_merged"}
    /\ appended' = appended \o df
    /\ i' = i + 1
    /\ pc' = "loop"
    /\ UNCHANGED << world, xlsx_files, df, rows_in_file, before_merge,
                    after_concat, duplicate_count, total_rows_before, outputs,
                    prior_data, accepted_sizes, uncounted >>

(* Lines 120-126: the summary. *)
Summary ==
    /\ pc = "summary"
    /\ console' = console \cup {"summary"}
    /\ pc' = "export"
    /\ UNCHANGED << world, xlsx_files, i, locals, totals, outputs, history >>

(* Lines 129-135: the table has rows and the file is written. *)
ExportCsv ==
    /\ pc = "export"
    /\ ~empty(all_data)
    /\ to_csv_called' = TRUE
    /\ csv_file' = to_csv(all_data)
    /\ console' = console \cup {"exported"}
    /\ pc' = "returned"
    /\ UNCHANGED << world, xlsx_files, i, locals, totals, history >>

(* Line 131 raises (the path cannot be written, the disk is full, the file *)
(* is open in another program): no handler encloses it,                    *)
(* the exception leaves merge_xlsx_files and main.                         *)
ExportRaises ==
    /\ pc = "export"
    /\ ~empty(all_data)
    /\ to_csv_called' = TRUE
    /\ pc' = "uncaught"
    /\ UNCHANGED << world, xlsx_files, i, locals, totals, csv_file, console,
                    history >>

(* Lines 136-137. *)
NothingToExport ==
    /\ pc = "export"
    /\ empty(all_data)
    /\ console' = console \cup {"nothing_to_export"}
    /\ pc' = "returned"
    /\ UNCHANGED << world, xlsx_files, i, locals, totals, outputs, history >>

(* Lines 154-156: merge_xlsx_files returned to main. *)
MainEnd ==
    /\ pc = "returned"
    /\ entry = "main"
    /\ console' = console \cup {"finished"}
    /\ pc' = "done"
    /\ UNCHANGED << world, xlsx_files, i, locals, totals, outputs, history >>

Next ==
    \/ CreateInputFolder
    \/ CallMerge
    \/ FolderMissing
    \/ Glob
    \/ NextFile
    \/ LoopEnd
    \/ ReadError
    \/ SkipMissingColumns
    \/ AcceptFile
    \/ ConcatFile
    \/ CountDuplicates
    \/ DropDuplicates
    \/ Summary
    \/ ExportCsv
    \/ ExportRaises
    \/ NothingToExport
    \/ MainEnd

Spec == Init /\ [][Next]_vars

-----------------------------------------------------------------------------
(* Vocabulary of the properties. *)

NoDuplicates(rows) ==
    \A j, k \in 1..Len(rows) : j < k => rows[j] # rows[k]

(* The first occurrences of the distinct values of s, in the order of s.   *)
RECURSIVE FirstOccurrences(_)
FirstOccurrences(s) ==
    IF s = <<>> THEN <<>>
    ELSE LET p == FirstOccurrences(SubSeq(s, 1, Len(s) - 1))
             x == s[Len(s)]
         IN  IF x \in Range(p) THEN p ELSE Append(p, x)

RECURSIVE SumSeq(_)
SumSeq(s) ==
    IF s = <<>> THEN 0 ELSE s[1] + SumSeq(Tail(s))

(* The rows of table that equal some row of data, counted with             *)
(* multiplicity.                                                           *)
RowsFoundIn(table, data) ==
    Cardinality({ k \in 1..Len(table) : table[k] \in Range(data) })

(* No file is being processed: between two iterations or after the loop.   *)
BetweenFiles ==
    pc \in {"loop", "summary", "export", "returned", "done", "uncaught"}

Ended == pc \in {"returned", "done", "uncaught"}

ReachedFinalization == "summary" \in console

-----------------------------------------------------------------------------
(* C1: whenever an iteration of the loop has ended, and at finalization,   *)
(* the Dataset holds no two equal records, whatever files were met.        *)
C1_NoDuplicateRecords ==
    (BetweenFiles \/ pc \in {"read", "concat"}) => NoDuplicates(all_data)

C1_Witness ==
    /\ pc = "summary"
    /\ "read_error" \in console
    /\ Len(appended) = 2
    /\ Len(all_data) = 1

(* C2: at the end of every iteration and in the written file the Dataset   *)
(* is the sequence of first occurrences of the records of the accepted     *)
(* files in processing order: deduplicating after each file gives what one *)
(* deduplication of the whole concatenation gives.                         *)
C2_FirstOccurrencesInOrder ==
    /\ BetweenFiles => all_data = FirstOccurrences(appended)
    /\ csv_file # <<>> => Tail(csv_file) = FirstOccurrences(appended)

C2_Witness ==
    /\ pc = "returned"
    /\ csv_file # <<>>
    /\ accepted_sizes = <<2, 2>>
    /\ appended[1] = appended[4]
    /\ Len(all_data) = 3

(* C3: once the duplicates of a file are counted, the count is the number  *)
(* of the file's rows, with multiplicity, that equal some row of the       *)
(* Dataset as it stood before the file was appended; it is 0 when that     *)
(* Dataset was empty, and 1 for [(Q1,A1),(Q3,A3)] after [(Q1,A1),(Q2,A2)]. *)
C3_DuplicateCount ==
    pc = "dedup" =>
        /\ duplicate_count = RowsFoundIn(df, prior_data)
        /\ prior_data = <<>> => duplicate_count = 0
        /\ ( /\ appended = << <<"Q1", "A1">>, <<"Q2", "A2">> >>
             /\ df = << <<"Q1", "A1">>, <<"Q3", "A3">> >> )
           => duplicate_count = 1

C3_Witness ==
    /\ pc = "dedup"
    /\ accepted_sizes = <<2, 2>>
    /\ appended = << <<"Q1", "A1">>, <<"Q2", "A2">> >>
    /\ df = << <<"Q1", "A1">>, <<"Q3", "A3">> >>
    /\ duplicate_count = 1

(* C4: a step that skips a file (it cannot be read, or lacks a required    *)
(* column) leaves the Dataset and both running totals as they were and     *)
(* moves on to the next file.                                              *)
C4_SkipIsNoOp ==
    [][ (pc = "read" /\ pc' # "concat") =>
            /\ all_data' = all_data
            /\ total_duplicates' = total_duplicates
            /\ total_rows_before' = total_rows_before
            /\ i' = i + 1
            /\ pc' = "loop" ]_vars

C4_Witness ==
    /\ pc = "loop"
    /\ i = 3
    /\ accepted_sizes = <<2>>
    /\ "warning_missing_columns" \in console
    /\ rows_in_file = 1
    /\ Len(all_data) = 2
    /\ total_rows_before = 2

(* C5: the rows-read counter is the sum of the row counts of the accepted  *)
(* files; a skipped file adds nothing, although its rows were counted into *)
(* rows_in_file.                                                           *)
C5_TotalRowsRead ==
    total_rows_before = SumSeq(accepted_sizes)

C5_Witness ==
    /\ pc = "summary"
    /\ accepted_sizes = <<1>>
    /\ "warning_missing_columns" \in console
    /\ rows_in_file = 2
    /\ total_rows_before = 1

(* C6: the write of the output file is executed exactly when finalization  *)
(* is reached with a non-empty Dataset; with a missing folder, no matching *)
(* file or an empty Dataset nothing is written and a message says why.     *)
C6_WriteIffNonEmpty ==
    /\ to_csv_called => (ReachedFinalization /\ all_data # <<>>)
    /\ csv_file # <<>> => to_csv_called
    /\ (Ended /\ ReachedFinalization /\ all_data # <<>>) => to_csv_called
    /\ pc \in {"returned", "done"} =>
          (csv_file # <<>> <=> (ReachedFinalization /\ all_data # <<>>))
    /\ (pc \in {"returned", "done"} /\ csv_file = <<>>) =>
          console \cap {"error_no_folder", "warning_no_files",
                        "nothing_to_export"} # {}

C6_Witness ==
    /\ pc = "returned"
    /\ accepted_sizes = <<0>>
    /\ "read_error" \in console
    /\ "nothing_to_export" \in console
    /\ csv_file = <<>>
    /\ ~to_csv_called

(* C7: no failure path ends in an uncaught exception. *)
C7_NoUncaughtException ==
    pc # "uncaught"

(* C8, as stated: the rows the count scans, all_data[1..before_merge], are *)
(* all the rows of the files accepted before, internal duplicates          *)
(* included.                                                               *)
C8_CountedAgainstRawRows ==
    pc = "dedup" => SubSeq(all_data, 1, before_merge) = appended

(* C8, amended: the rows the count scans are the deduplicated Dataset the  *)
(* previous iteration stored, and the count is the number of the file's    *)
(* rows that equal some record of it, which is also the number that equal  *)
(* some row of the files accepted before: the two never differ.            *)
C8_CountedAgainstStoredDataset ==
    pc = "dedup" =>
        /\ SubSeq(all_data, 1, before_merge) = FirstOccurrences(appended)
        /\ NoDuplicates(SubSeq(all_data, 1, before_merge))
        /\ duplicate_count
             = RowsFoundIn(df, SubSeq(all_data, 1, before_merge))
        /\ duplicate_count = RowsFoundIn(df, appended)

C8_Witness ==
    /\ pc = "dedup"
    /\ Len(appended) = 2
    /\ before_merge = 1
    /\ duplicate_count = 2

(* C9, as stated: the Dataset never gets shorter during accumulation, so   *)
(* what an iteration leaves is as long as what its append produced.        *)
C9_NoShrinkDuringAccumulation ==
    pc = "loop" => after_dedup = after_concat

(* C9, amended: the Dataset is empty at program start; it gets shorter     *)
(* only at the drop_duplicates of an iteration of the loop, and what an    *)
(* iteration leaves is never shorter than what it found; finalization      *)
(* leaves the Dataset as it is.                                            *)
C9_Lifecycle ==
    [][ /\ pc = "start" => all_data = <<>>
        /\ Len(all_data') < Len(all_data) => pc = "dedup"
        /\ pc = "dedup" => Len(all_data') >= before_merge
        /\ pc \in {"summary", "export", "returned"} => all_data' = all_data
      ]_vars

C9_Witness ==
    /\ pc = "returned"
    /\ csv_file # <<>>
    /\ accepted_sizes = <<2, 2>>
    /\ Len(all_data) = 1

(* C10: between files and at the summary, Dataset length plus duplicates   *)
(* reported is at most the rows read, with equality exactly when no        *)
(* accepted file held a row that repeats an earlier row of the same file   *)
(* and equals no row of the Dataset as it stood before that file.          *)
C10_SummaryAccounting ==
    BetweenFiles =>
        /\ Len(all_data) + total_duplicates <= total_rows_before
        /\ (Len(all_data) + total_duplicates = total_rows_before)
              <=> (uncounted = 0)

C10_Witness ==
    /\ pc = "summary"
    /\ uncounted = 1
    /\ total_duplicates = 1
    /\ total_rows_before = 4
    /\ Len(all_data) = 2

=============================================================================
